---- MODULE Spec2Model ----
(***************************************************************************)
(* Model of src/src/App.jsx: the App component of the survey dashboard.    *)
(*                                                                         *)
(* State: the six useState cells, the two startup reads, the position of   *)
(* the Promise.all handlers, whether the component is mounted, and the     *)
(* result of the last render (its screen and the locals it computed).      *)
(***************************************************************************)
EXTENDS Integers, Sequences, FiniteSets, TLC

VARIABLES
    summaries,            \* useState([])            (line 20)
    metadata,             \* useState(null)          (line 21)
    selectedDemographic,  \* useState('Overall')     (line 22)
    selectedView,         \* useState('items')       (line 23)
    loading,              \* useState(true)          (line 24)
    error,                \* useState(null)          (line 25)
    summariesRead,        \* fetch('./data/summaries.json').then(r => r.json())
    metadataRead,         \* fetch('./data/metadata.json').then(r => r.json())
    pc,                   \* position of the Promise.all .then/.catch handlers
    mounted,              \* whether the component is still mounted
    rendered              \* what the last render returned and computed

vars == <<summaries, metadata, selectedDemographic, selectedView, loading,
          error, summariesRead, metadataRead, pc, mounted, rendered>>

stateCells == <<summaries, metadata, loading, error>>

(***************************************************************************)
(* Bounds and input domains.                                               *)
(***************************************************************************)
MaxLen == 3

ItemKeys == {"i1", "s1"}
GroupKeys == {"Male", "Female", "Male_n", "item"}
DemographicKeys == {"Overall", "Gender"}

\* item_label of a record: "" stands for a label that is absent (or empty);
\* both are falsy in `itemRows[0]?.item_label || item`.
NoLabel == ""
Labels == {NoLabel, "Item One"}

null == [null |-> TRUE]
NoError == ""
LoadError == "Failed to load data. Please run the R scripts first."

\* The shape of a record: its keys, before its statistics are filled in.
\* The pool keeps every item, group and label under "Overall" for the item
\* key "i1", and leaves the labels out elsewhere.
Shapes ==
    {s \in [item : ItemKeys, group : GroupKeys,
            demographic : DemographicKeys, item_label : Labels] :
        /\ s.item = "s1" => s.item_label = NoLabel
        /\ s.demographic = "Gender" =>
              s.item_label = NoLabel /\ s.group \in {"Male", "Female"}}

\* The record at position i of a file carries statistics that identify it.
Stat(shape, i) ==
    [item |-> shape.item, item_label |-> shape.item_label,
     demographic |-> shape.demographic, group |-> shape.group,
     mean |-> i, sd |-> 10 + i, n |-> 20 + i,
     ci_lower |-> 30 + i, ci_upper |-> 40 + i]

SummaryFilesOfLen(k) ==
    {[i \in 1..k |-> Stat(s[i], i)] : s \in [1..k -> Shapes]}

\* score_types.items and score_types.scales: a partition of the item keys,
\* a key in both lists, and a key in neither.
Classifications ==
    {<<{"i1"}, {"s1"}>>, <<{"i1", "s1"}, {"s1"}>>, <<{"i1"}, {}>>}

MetadataFiles ==
    {[sample_size |-> 150, demographics |-> <<"Overall", "Gender">>,
      score_types |-> [items |-> c[1], scales |-> c[2]]] :
        c \in Classifications}

(***************************************************************************)
(* JavaScript values stored in a pivoted row.                              *)
(***************************************************************************)
Str(s) == [kind |-> "string", s |-> s, n |-> 0, lo |-> 0, hi |-> 0]
Num(n) == [kind |-> "number", s |-> "", n |-> n, lo |-> 0, hi |-> 0]
Pair(lo, hi) == [kind |-> "array", s |-> "", n |-> 0, lo |-> lo, hi |-> hi]

\* row[key] = value
SetKey(row, key, value) == (key :> value) @@ row

(***************************************************************************)
(* The reshaping pipeline of a render (lines 71-106).                      *)
(***************************************************************************)
\* [...new Set(seq)] : distinct values in insertion order
RECURSIVE Unique(_)
Unique(seq) ==
    IF seq = <<>> THEN <<>>
    ELSE LET front == Unique(SubSeq(seq, 1, Len(seq) - 1))
             last == seq[Len(seq)]
         IN IF \E i \in 1..Len(front) : front[i] = last
            THEN front
            ELSE Append(front, last)

\* data.map(d => d.item), data.map(d => d.group)
ItemsOf(data) == [i \in 1..Len(data) |-> data[i].item]
GroupsOf(data) == [i \in 1..Len(data) |-> data[i].group]

filteredData(summ, dem) ==
    LET Matches(d) == d.demographic = dem
    IN SelectSeq(summ, Matches)

itemData(filtered, meta) ==
    LET IsItem(d) == d.item \in meta.score_types.items
    IN SelectSeq(filtered, IsItem)

\* Faulty variant of scaleData: every record that is not an item.
scaleDataRest(filtered, meta) ==
    LET NotItem(d) == d.item \notin meta.score_types.items
    IN SelectSeq(filtered, NotItem)

scaleData(filtered, meta) ==
    LET IsScale(d) == d.item \in meta.score_types.scales
    IN SelectSeq(filtered, IsScale)

\* Faulty variant of groups: the Set is left out.
groupsNoSet(filtered) == GroupsOf(filtered)

groups(filtered) == Unique(GroupsOf(filtered))

\* Faulty variant of GroupSource: the selected category's subset.
GroupSourceSelected(filtered, items, scales, view) ==
    IF view = "items" THEN items ELSE scales

\* The subset line 83 discovers the groups on: filteredData.
GroupSource(filtered, items, scales, view) == filtered

\* The four keyed writes of itemRows.forEach (lines 95-98).
WriteGroup(row, r) ==
    LET r1 == SetKey(row, r.group, Num(r.mean))
        r2 == SetKey(r1, r.group \o "_ci", Pair(r.ci_lower, r.ci_upper))
        r3 == SetKey(r2, r.group \o "_n", Num(r.n))
    IN SetKey(r3, r.group \o "_sd", Num(r.sd))

RECURSIVE WriteGroups(_, _)
WriteGroups(row, itemRows) ==
    IF itemRows = <<>> THEN row
    ELSE WriteGroups(WriteGroup(row, Head(itemRows)), Tail(itemRows))

LabelOf(itemRows, item) ==
    IF itemRows # <<>> /\ itemRows[1].item_label # NoLabel
    THEN itemRows[1].item_label
    ELSE item

PivotRow(data, item) ==
    LET HasItem(d) == d.item = item
        itemRows == SelectSeq(data, HasItem)
        row == [k \in {"item", "label"} |->
                    IF k = "item" THEN Str(item)
                    ELSE Str(LabelOf(itemRows, item))]
    IN WriteGroups(row, itemRows)

prepareChartData(data) ==
    LET items == Unique(ItemsOf(data))
    IN [i \in 1..Len(items) |-> PivotRow(data, items[i])]

SelectedData(items, scales, view) ==
    IF view = "items" THEN items ELSE scales

(***************************************************************************)
(* A render of App (lines 43-106): the screen it returns and its locals.   *)
(***************************************************************************)
Blank(screen) ==
    [screen |-> screen, filteredData |-> <<>>, itemData |-> <<>>,
     scaleData |-> <<>>, groups |-> <<>>, chartData |-> <<>>]

\* Faulty variant of Screen: the error guard (line 52) is left out.
ScreenNoErrorGuard(ld, err) ==
    IF ld THEN "loading" ELSE "ready"

Screen(ld, err) ==
    IF ld THEN "loading"
    ELSE IF err # NoError THEN "error"
    ELSE "ready"

\* With metadata still null the ready branch throws at
\* metadata.score_types / metadata.sample_size (lines 76, 137).
Render(summ, meta, dem, view, ld, err) ==
    IF Screen(ld, err) # "ready" THEN Blank(Screen(ld, err))
    ELSE IF meta = null THEN Blank("crashed")
    ELSE LET f == filteredData(summ, dem)
             it == itemData(f, meta)
             sc == scaleData(f, meta)
         IN [screen |-> "ready", filteredData |-> f, itemData |-> it,
             scaleData |-> sc,
             groups |-> groups(GroupSource(f, it, sc, view)),
             chartData |-> prepareChartData(SelectedData(it, sc, view))]

Unmounted == Blank("unmounted")

(***************************************************************************)
(* Payloads the two reads resolve with in the startup specification.       *)
(***************************************************************************)
SampleShape(item, group, demographic, label) ==
    [item |-> item, group |-> group, demographic |-> demographic,
     item_label |-> label]

SampleSummaries ==
    {<<>>,
     <<Stat(SampleShape("i1", "Male", "Overall", "Item One"), 1)>>,
     <<Stat(SampleShape("i1", "Male", "Overall", "Item One"), 1),
       Stat(SampleShape("s1", "Female", "Gender", NoLabel), 2)>>,
     <<Stat(SampleShape("i1", "Male", "Gender", NoLabel), 1),
       Stat(SampleShape("i1", "Female", "Gender", NoLabel), 2),
       Stat(SampleShape("s1", "Male", "Overall", NoLabel), 3)>>}

SampleMetadata ==
    {m \in MetadataFiles :
        m.score_types.items = {"i1"} /\ m.score_types.scales = {"s1"}}

Pending(empty) == [status |-> "pending", value |-> empty]
Fulfilled(v) == [status |-> "fulfilled", value |-> v]
Rejected(empty) == [status |-> "rejected", value |-> empty]

(***************************************************************************)
(* Initial state: the component has been constructed, rendered once (the   *)
(* loading screen) and its effect has issued the two reads.                *)
(***************************************************************************)
Init ==
    /\ summaries = <<>>
    /\ metadata = null
    /\ selectedDemographic = "Overall"
    /\ selectedView = "items"
    /\ loading = TRUE
    /\ error = NoError
    /\ summariesRead = Pending(<<>>)
    /\ metadataRead = Pending(null)
    /\ pc = "pending"
    /\ mounted = TRUE
    /\ rendered = Render(<<>>, null, "Overall", "items", TRUE, NoError)

(***************************************************************************)
(* Rendering after a state update.  A mounted component re-renders from    *)
(* its new state; inside a promise callback React either renders at once   *)
(* after each setter or batches the setters of the callback and renders    *)
(* once at its end.  An unmounted component never renders.                 *)
(***************************************************************************)
\* Faulty variant of Flush: the render result is kept unless the demographic
\* changed.
FlushOnDemographicOnly ==
    rendered' = IF mounted /\ selectedDemographic' # selectedDemographic
                THEN Render(summaries', metadata', selectedDemographic',
                            selectedView', loading', error')
                ELSE rendered

Flush ==
    rendered' = IF mounted
                THEN Render(summaries', metadata', selectedDemographic',
                            selectedView', loading', error')
                ELSE rendered

FlushOrDefer == Flush \/ UNCHANGED rendered

\* Inside a handler that has started and not yet returned.
MidHandler == pc \in {"then_setMetadata", "then_setLoading", "catch_setLoading"}

(***************************************************************************)
(* The two reads (lines 29-30).                                            *)
(***************************************************************************)
SummariesFulfil ==
    /\ summariesRead.status = "pending"
    /\ ~MidHandler
    /\ \E data \in SampleSummaries : summariesRead' = Fulfilled(data)
    /\ UNCHANGED <<summaries, metadata, selectedDemographic, selectedView,
                   loading, error, metadataRead, pc, mounted, rendered>>

SummariesReject ==
    /\ summariesRead.status = "pending"
    /\ ~MidHandler
    /\ summariesRead' = Rejected(<<>>)
    /\ UNCHANGED <<summaries, metadata, selectedDemographic, selectedView,
                   loading, error, metadataRead, pc, mounted, rendered>>

MetadataFulfil ==
    /\ metadataRead.status = "pending"
    /\ ~MidHandler
    /\ \E data \in SampleMetadata : metadataRead' = Fulfilled(data)
    /\ UNCHANGED <<summaries, metadata, selectedDemographic, selectedView,
                   loading, error, summariesRead, pc, mounted, rendered>>

MetadataReject ==
    /\ metadataRead.status = "pending"
    /\ ~MidHandler
    /\ metadataRead' = Rejected(null)
    /\ UNCHANGED <<summaries, metadata, selectedDemographic, selectedView,
                   loading, error, summariesRead, pc, mounted, rendered>>

(***************************************************************************)
(* Promise.all (line 28): fulfilled once both reads are, rejected as soon  *)
(* as one is.                                                              *)
(***************************************************************************)
\* Faulty variant of AllFulfilled: one fulfilled read is enough.
AnyFulfilled(s, m) == s.status = "fulfilled" \/ m.status = "fulfilled"

AllFulfilled(s, m) == s.status = "fulfilled" /\ m.status = "fulfilled"

AllRejected(s, m) == s.status = "rejected" \/ m.status = "rejected"

LoadFulfil ==
    /\ pc = "pending"
    /\ AllFulfilled(summariesRead, metadataRead)
    /\ pc' = "then_setSummaries"
    /\ UNCHANGED <<summaries, metadata, selectedDemographic, selectedView,
                   loading, error, summariesRead, metadataRead, mounted,
                   rendered>>

LoadReject ==
    /\ pc = "pending"
    /\ AllRejected(summariesRead, metadataRead)
    /\ pc' = "catch_setError"
    /\ UNCHANGED <<summaries, metadata, selectedDemographic, selectedView,
                   loading, error, summariesRead, metadataRead, mounted,
                   rendered>>

(***************************************************************************)
(* The .then handler (lines 32-36), one step per setter.  The handlers     *)
(* test nothing before they call the setters: a setter call stores its     *)
(* value in the component's state cell whether or not it is mounted.       *)
(***************************************************************************)
ThenSetSummaries ==
    /\ pc = "then_setSummaries"
    /\ summaries' = summariesRead.value
    /\ pc' = "then_setMetadata"
    /\ UNCHANGED <<metadata, selectedDemographic, selectedView, loading,
                   error, summariesRead, metadataRead, mounted>>
    /\ FlushOrDefer

ThenSetMetadata ==
    /\ pc = "then_setMetadata"
    /\ metadata' = metadataRead.value
    /\ pc' = "then_setLoading"
    /\ UNCHANGED <<summaries, selectedDemographic, selectedView, loading,
                   error, summariesRead, metadataRead, mounted>>
    /\ FlushOrDefer

ThenSetLoading ==
    /\ pc = "then_setLoading"
    /\ loading' = FALSE
    /\ pc' = "done"
    /\ UNCHANGED <<summaries, metadata, selectedDemographic, selectedView,
                   error, summariesRead, metadataRead, mounted>>
    /\ Flush

(***************************************************************************)
(* The .catch handler (lines 37-40).                                       *)
(***************************************************************************)
CatchSetError ==
    /\ pc = "catch_setError"
    /\ error' = LoadError
    /\ pc' = "catch_setLoading"
    /\ UNCHANGED <<summaries, metadata, selectedDemographic, selectedView,
                   loading, summariesRead, metadataRead, mounted>>
    /\ FlushOrDefer

CatchSetLoading ==
    /\ pc = "catch_setLoading"
    /\ loading' = FALSE
    /\ pc' = "done"
    /\ UNCHANGED <<summaries, metadata, selectedDemographic, selectedView,
                   error, summariesRead, metadataRead, mounted>>
    /\ Flush

(***************************************************************************)
(* The controls of the ready screen (lines 147, 160, 166).                 *)
(***************************************************************************)
Options(meta) == {meta.demographics[i] : i \in 1..Len(meta.demographics)}

SetSelectedDemographic(d) ==
    /\ mounted
    /\ rendered.screen = "ready"
    /\ d \in Options(metadata)
    /\ selectedDemographic' = d
    /\ UNCHANGED <<summaries, metadata, selectedView, loading, error,
                   summariesRead, metadataRead, pc, mounted>>
    /\ Flush

SetSelectedView(v) ==
    /\ mounted
    /\ rendered.screen = "ready"
    /\ selectedView' = v
    /\ UNCHANGED <<summaries, metadata, selectedDemographic, loading, error,
                   summariesRead, metadataRead, pc, mounted>>
    /\ Flush

(***************************************************************************)
(* The component is torn down.  The effect returns no cleanup (line 41),   *)
(* so the reads and their handlers stay in flight.                         *)
(***************************************************************************)
Unmount ==
    /\ mounted
    /\ ~MidHandler
    /\ mounted' = FALSE
    /\ rendered' = Unmounted
    /\ UNCHANGED <<summaries, metadata, selectedDemographic, selectedView,
                   loading, error, summariesRead, metadataRead, pc>>

Next ==
    \/ SummariesFulfil
    \/ SummariesReject
    \/ MetadataFulfil
    \/ MetadataReject
    \/ LoadFulfil
    \/ LoadReject
    \/ ThenSetSummaries
    \/ ThenSetMetadata
    \/ ThenSetLoading
    \/ CatchSetError
    \/ CatchSetLoading
    \/ \E d \in DemographicKeys : SetSelectedDemographic(d)
    \/ \E v \in {"items", "scales"} : SetSelectedView(v)
    \/ Unmount

Spec == Init /\ [][Next]_vars

(***************************************************************************)
(* The reshaping pipeline on its own: the component right after a          *)
(* successful load of any bounded pair of files, driven by the controls.   *)
(***************************************************************************)
InitReady ==
    /\ \E k \in 0..MaxLen : summaries \in SummaryFilesOfLen(k)
    /\ metadata \in MetadataFiles
    /\ selectedDemographic = "Overall"
    /\ selectedView = "items"
    /\ loading = FALSE
    /\ error = NoError
    /\ summariesRead = Fulfilled(summaries)
    /\ metadataRead = Fulfilled(metadata)
    /\ pc = "done"
    /\ mounted = TRUE
    /\ rendered = Render(summaries, metadata, "Overall", "items", FALSE,
                         NoError)

NextReady ==
    \/ \E d \in DemographicKeys : SetSelectedDemographic(d)
    \/ \E v \in {"items", "scales"} : SetSelectedView(v)

SpecReady == InitReady /\ [][NextReady]_vars

(***************************************************************************)
(* Helpers of the properties.                                              *)
(***************************************************************************)
Range(seq) == {seq[i] : i \in 1..Len(seq)}

BothStored ==
    /\ summariesRead.status = "fulfilled"
    /\ metadataRead.status = "fulfilled"
    /\ summaries = summariesRead.value
    /\ metadata = metadataRead.value

Reshaped == rendered.screen \notin {"loading", "error", "unmounted"}

AReadFailed ==
    summariesRead.status = "rejected" \/ metadataRead.status = "rejected"

\* The subset the selected view pivots.
Selected == SelectedData(rendered.itemData, rendered.scaleData, selectedView)

\* The records of subset with the given item and group, in subset order.
Cell(subset, item, group) ==
    LET Hit(d) == d.item = item /\ d.group = group
    IN SelectSeq(subset, Hit)

FirstWith(subset, item) ==
    LET HasItem(d) == d.item = item
    IN Head(SelectSeq(subset, HasItem))

FirstIndex(subset, group) ==
    CHOOSE i \in 1..Len(subset) :
        /\ subset[i].group = group
        /\ \A j \in 1..(i - 1) : subset[j].group # group

GroupFields(g) == {g, g \o "_ci", g \o "_n", g \o "_sd"}

(***************************************************************************)
(* C1.  No reshaping step runs on a partially loaded Record Store: the     *)
(* component is out of the loading state without an error, or a render     *)
(* has gone past the loading and error guards, only when both reads have   *)
(* succeeded and both results are stored.                                  *)
(***************************************************************************)
C1_ReadyOnlyAfterBothStored ==
    /\ Reshaped => rendered.screen = "ready" /\ BothStored
    /\ (~loading /\ error = NoError) => BothStored

C1_Witness ==
    /\ rendered.screen = "ready"
    /\ Len(summaries) = 2
    /\ Len(rendered.chartData) = 1

(***************************************************************************)
(* C2.  Once a read has failed the Record Store stays empty (summaries     *)
(* empty, metadata unset) and no render reshapes; when the catch handler   *)
(* has run the component is in the error state, which no later step        *)
(* leaves, and no read is issued again.                                    *)
(***************************************************************************)
C2_FailureState ==
    AReadFailed =>
        /\ summaries = <<>>
        /\ metadata = null
        /\ ~Reshaped
        /\ rendered.chartData = <<>> /\ rendered.groups = <<>>
        /\ pc = "done" =>
              /\ error = LoadError
              /\ ~loading
              /\ mounted => rendered.screen = "error"

C2_FailureStep ==
    /\ (summariesRead.status # "pending") => summariesRead' = summariesRead
    /\ (metadataRead.status # "pending") => metadataRead' = metadataRead
    /\ (error # NoError) => error' = error
    /\ (rendered.screen = "error") => rendered'.screen \in {"error", "unmounted"}
    /\ (pc = "done") => pc' = "done" /\ UNCHANGED stateCells

\* C2: the failure state holds in every state and every step keeps it.
C2_LoadFailureTerminal == [](C2_FailureState) /\ [][C2_FailureStep]_vars

C2_Witness ==
    /\ summariesRead.status = "rejected"
    /\ metadataRead.status = "fulfilled"
    /\ pc = "done"
    /\ rendered.screen = "error"

(***************************************************************************)
(* C3.  After the component is unmounted no step writes summaries,         *)
(* metadata, loading or error.                                             *)
(***************************************************************************)
C3_NoWriteAfterUnmount == [][~mounted => UNCHANGED stateCells]_vars

\* pivot(category subset of filterByDemographic(records, dem)) as one function
\* of the records, the metadata and the two selections.
Recompute(records, meta, dem, view) ==
    LET f == filteredData(records, dem)
    IN prepareChartData(IF view = "items" THEN itemData(f, meta)
                        ELSE scaleData(f, meta))

(***************************************************************************)
(* C4.  After any sequence of selection updates the pivoted rows of the    *)
(* last render are the pure recomputation from the records, the metadata   *)
(* and the current selections.                                             *)
(***************************************************************************)
C4_PureRecomputation ==
    rendered.screen = "ready" =>
        rendered.chartData =
            Recompute(summaries, metadata, selectedDemographic, selectedView)

C4_Witness ==
    /\ selectedDemographic = "Gender"
    /\ selectedView = "scales"
    /\ Len(rendered.chartData) = 1
    /\ \E i \in 1..Len(summaries) : summaries[i].demographic = "Overall"
    /\ Recompute(summaries, metadata, "Overall", "items") # rendered.chartData

(***************************************************************************)
(* C5.  As claimed: a group is in the group list if and only if a record   *)
(* of the selected category within the selected demographic has it.        *)
(***************************************************************************)
C5_GroupsOfSelectedCategory ==
    rendered.screen = "ready" =>
        \A g \in GroupKeys :
            g \in Range(rendered.groups) <=>
                \E i \in 1..Len(Selected) : Selected[i].group = g

(***************************************************************************)
(* C5, amended.  The group list is discovered on the demographic's         *)
(* subset, before the category split: a group is in the list if and only   *)
(* if a record of the selected demographic, of either category or of       *)
(* none, has it.                                                           *)
(***************************************************************************)
C5_GroupsOfDemographic ==
    rendered.screen = "ready" =>
        \A g \in GroupKeys :
            g \in Range(rendered.groups) <=>
                \E i \in 1..Len(summaries) :
                    /\ summaries[i].demographic = selectedDemographic
                    /\ summaries[i].group = g

C5_Witness ==
    /\ rendered.screen = "ready"
    /\ selectedView = "scales"
    /\ "Female" \in Range(rendered.groups)
    /\ Selected # <<>>
    /\ \A i \in 1..Len(Selected) : Selected[i].group # "Female"

(***************************************************************************)
(* C6.  As claimed: a classified record is in exactly one of itemData and  *)
(* scaleData, an unclassified one in neither, and the two share no record. *)
(***************************************************************************)
C6_ExactlyOneSubset ==
    rendered.screen = "ready" =>
        /\ \A r \in Range(rendered.filteredData) :
              LET inItems == r \in Range(rendered.itemData)
                  inScales == r \in Range(rendered.scaleData)
                  classified == r.item \in metadata.score_types.items
                                    \cup metadata.score_types.scales
              IN IF classified THEN inItems # inScales
                 ELSE ~inItems /\ ~inScales
        /\ Range(rendered.itemData) \cap Range(rendered.scaleData) = {}

(***************************************************************************)
(* C6, amended.  A record of the filtered subset is in itemData exactly    *)
(* when its item key is in score_types.items and in scaleData exactly      *)
(* when it is in score_types.scales; both subsets hold only records of     *)
(* the filtered subset.  So a record is in both exactly when its key is    *)
(* in both lists, and in neither when it is in neither.                    *)
(***************************************************************************)
C6_SubsetsFollowLists ==
    rendered.screen = "ready" =>
        /\ Range(rendered.itemData) \subseteq Range(rendered.filteredData)
        /\ Range(rendered.scaleData) \subseteq Range(rendered.filteredData)
        /\ \A r \in Range(rendered.filteredData) :
              /\ r \in Range(rendered.itemData) <=>
                    r.item \in metadata.score_types.items
              /\ r \in Range(rendered.scaleData) <=>
                    r.item \in metadata.score_types.scales

C6_Witness ==
    /\ rendered.screen = "ready"
    /\ \E r \in Range(rendered.filteredData) :
          /\ r \in Range(rendered.itemData)
          /\ r \in Range(rendered.scaleData)
    /\ \E r \in Range(rendered.filteredData) :
          /\ r \in Range(rendered.itemData)
          /\ r \notin Range(rendered.scaleData)

(***************************************************************************)
(* C7.  The pivot returns one row per distinct item of the subset, in      *)
(* first-occurrence order; each row's item is that item key and its label  *)
(* the item_label of the item's first record, or the key when absent.      *)
(***************************************************************************)
C7_OneRowPerItem ==
    rendered.screen = "ready" =>
        LET items == Unique(ItemsOf(Selected))
            rows == rendered.chartData
        IN /\ Len(rows) = Len(items)
           /\ \A i \in 1..Len(rows) :
                 LET first == FirstWith(Selected, items[i])
                 IN /\ rows[i]["item"] = Str(items[i])
                    /\ rows[i]["label"] =
                          Str(IF first.item_label = NoLabel THEN items[i]
                              ELSE first.item_label)

(***************************************************************************)
(* C8.  When several records of the subset share an (item, group) pair,    *)
(* the four fields of that group in the item's row carry the values of     *)
(* the last of them.                                                       *)
(***************************************************************************)
C8_LastWriteWins ==
    rendered.screen = "ready" =>
        LET items == Unique(ItemsOf(Selected))
            rows == rendered.chartData
        IN \A i \in 1..Len(rows) : \A g \in GroupKeys :
              LET cell == Cell(Selected, items[i], g)
                  last == cell[Len(cell)]
              IN Len(cell) >= 2 =>
                    /\ rows[i][g] = Num(last.mean)
                    /\ rows[i][g \o "_ci"] = Pair(last.ci_lower, last.ci_upper)
                    /\ rows[i][g \o "_n"] = Num(last.n)
                    /\ rows[i][g \o "_sd"] = Num(last.sd)

(***************************************************************************)
(* C9.  For every item i and every group g of the subset, the row of i    *)
(* has the four keys of g exactly when the subset holds a record with      *)
(* item i and group g.                                                     *)
(***************************************************************************)
C9_SparsePivot ==
    rendered.screen = "ready" =>
        LET items == Unique(ItemsOf(Selected))
            rows == rendered.chartData
        IN \A i \in 1..Len(rows) : \A g \in Range(GroupsOf(Selected)) :
              \A k \in GroupFields(g) :
                  k \in DOMAIN rows[i] <=> Cell(Selected, items[i], g) # <<>>

\* list holds the groups of subset, each once, by first occurrence.
FirstOccurrenceOrder(list, subset) ==
    /\ Range(list) = {subset[i].group : i \in 1..Len(subset)}
    /\ \A i, j \in 1..Len(list) : i # j => list[i] # list[j]
    /\ \A i, j \in 1..Len(list) :
          i < j => FirstIndex(subset, list[i]) < FirstIndex(subset, list[j])
    /\ subset = <<>> => list = <<>>

(***************************************************************************)
(* C10.  Group discovery returns every group of the subset exactly once,   *)
(* ordered by first occurrence; an empty subset gives an empty list.       *)
(***************************************************************************)
C10_GroupsFirstOccurrence ==
    rendered.screen = "ready" =>
        /\ FirstOccurrenceOrder(rendered.groups, rendered.filteredData)
        /\ \A subset \in {rendered.itemData, rendered.scaleData} :
              FirstOccurrenceOrder(groups(subset), subset)

C10_Witness ==
    /\ rendered.screen = "ready"
    /\ GroupsOf(rendered.filteredData) = <<"Male", "Female", "Male">>
    /\ rendered.groups = <<"Male", "Female">>

====
